---- MODULE Spec2Model ----
(***************************************************************************)
(* Model of the GND stream decoder of tools/gndToBmp.py: the six op-code   *)
(* handlers, the HANDLERS dispatch table and the decode() loop; and of the  *)
(* palette loader of tools/palette_vga.py.                                 *)
(* Positions and indices are 0-based as in the Python source; At and Slice *)
(* translate them to TLA+ sequences.                                       *)
(***************************************************************************)
EXTENDS Integers, Sequences, FiniteSets, TLC

\* stream, stop_pix, stop_src, step, save_frame_cb: the arguments of decode();
\* pos, out, hist, trace, frame: its locals; pc, exc: where the call stands;
\* frames: the invocations of save_frame_cb so far, <<frame_no, pixels>> each;
\* calls: the decode() calls the process has completed before this one;
\* path, pal_offset: the bytes of the palette file and the offset argument
\* of load_vga_palette(); palette: where that call stands and what it returned.
VARIABLES stream, stop_pix, stop_src, step, save_frame_cb,
          pos, out, hist, trace, frame, pc, exc, frames, calls,
          path, pal_offset, palette

vars == <<stream, stop_pix, stop_src, step, save_frame_cb,
          pos, out, hist, trace, frame, pc, exc, frames, calls,
          path, pal_offset, palette>>

\* ------------------------------------------------------------- constants
\* mutant of WIN: a window shorter than the longest back-reference
WIN_512 == 1024 \div 2

WIN == 4096
SHORT_REPEAT_LITERAL_BIAS == 3
LONG_REPEAT_LITERAL_BIAS == 36
COPY_2_BIAS == 2
COPY_3_BIAS == 3

\* Python's None (stop_pix / stop_src left out); budgets are integers >= 0
None == -1
\* no exception raised
NoExc == "none"

\* ------------------------------------------------------- bounds of the model
\* output budgets tried: None and 1..MaxPix
MaxPix == 2
\* input budgets tried: None and 0..MaxSrc
MaxSrc == 1
\* hooks tried: one that never fails and those failing at call 1..MaxFailAt
MaxFailAt == 2
\* earlier decode() calls of the same process that are followed
MaxCalls == 2
\* palette files end up to MaxShort bytes before and up to MaxExtra bytes
\* after the last byte of the colour table
MaxShort == 2
MaxExtra == 1
\* the streams over FairBytes have up to MaxLen bytes
MaxLen == 2
\* the alternating tails after the command under test have 0..MaxTail bytes
MaxTail == 2
\* length of the long tail 1, 2, 3, ...
LongTailLen == 32

\* ------------------------------------------------------- Python primitives
\* x & y on non-negative integers
RECURSIVE BitAnd(_, _)
BitAnd(x, y) ==
    IF x = 0 \/ y = 0 THEN 0
    ELSE (x % 2) * (y % 2) + 2 * BitAnd(x \div 2, y \div 2)

\* x | y on non-negative integers
RECURSIVE BitOr(_, _)
BitOr(x, y) ==
    IF x = 0 THEN y
    ELSE IF y = 0 THEN x
    ELSE (IF x % 2 = 1 \/ y % 2 = 1 THEN 1 ELSE 0) + 2 * BitOr(x \div 2, y \div 2)

\* x << n and x >> n
Shl(x, n) == x * (2 ^ n)
Shr(x, n) == x \div (2 ^ n)

\* truth value of an optional integer argument: None and 0 are both false
Truthy(x) == x # None /\ x # 0

\* save_frame_cb is None or a callable (always true in `step and
\* save_frame_cb`).  A callable is named by the call at which its I/O fails:
\* 0 never fails, k >= 1 raises OSError when called with frame_no = k.
HasHook(cb) == cb # None
HookRaises(cb, frame_no) == cb # None /\ cb = frame_no

\* src[i] for i >= 0 is defined when InRange(src, i); otherwise IndexError
InRange(src, i) == i >= 0 /\ i < Len(src)
At(src, i) == src[i + 1]

\* src[a:b] for 0 <= a <= b: slices clamp to the end, they never raise
Slice(src, a, b) ==
    LET hi == IF b < Len(src) THEN b ELSE Len(src)
    IN  IF a >= hi THEN << >> ELSE SubSeq(src, a + 1, hi)

\* bytes([val]) * n
Repeat(val, n) == [i \in 1..n |-> val]

\* hist = deque([0]*WIN, maxlen=WIN).  The deque's content is stored as
\* [fill, data]: `fill` zeros left of the initial zero fill, followed by the
\* bytes `data` extended since; hist_seq is the deque as a plain sequence.
NewHist == [fill |-> WIN, data |-> << >>]

hist_len(h) == h.fill + Len(h.data)

hist_seq(h) == [i \in 1..h.fill |-> 0] \o h.data

\* mutant of hist_extend: a deque without maxlen, nothing is evicted
hist_extend_unbounded(h, dat) == [fill |-> h.fill, data |-> h.data \o dat]

\* hist.extend(dat) on a deque with maxlen=WIN: append on the right, the
\* oldest elements fall off the left
hist_extend(h, dat) ==
    LET c    == h.data \o dat
        drop == h.fill + Len(c) - WIN
    IN  IF drop <= 0 THEN [fill |-> h.fill, data |-> c]
        ELSE IF drop <= h.fill THEN [fill |-> h.fill - drop, data |-> c]
        ELSE [fill |-> 0, data |-> SubSeq(c, drop - h.fill + 1, Len(c))]

\* hist[i] with Python's negative indexing (i in -len..len-1)
hist_index(h, i) ==
    LET k == IF i < 0 THEN hist_len(h) + i ELSE i
    IN  IF k < h.fill THEN 0 ELSE h.data[k - h.fill + 1]

\* ---------------------------------------------------------- op-code funcs
\* A handler returns [raised, exc, nxt, payload, note, hist]; hist is the
\* deque after the handler's mutation.
Raise(e, h) ==
    [raised |-> TRUE, exc |-> e, nxt |-> 0, payload |-> << >>,
     note |-> << >>, hist |-> h]
Ret(nxt, payload, note, h) ==
    [raised |-> FALSE, exc |-> NoExc, nxt |-> nxt, payload |-> payload,
     note |-> note, hist |-> h]

\* mutant of op_literal: the slice starts at the command byte
op_literal_from_cmd(cmd, src, p, h) ==
    LET n   == cmd
        dat == Slice(src, p, p + n)
    IN  Ret(p + 1 + n, dat, <<"LIT", n>>, hist_extend(h, dat))

op_literal(cmd, src, p, h) ==
    LET n   == cmd
        dat == Slice(src, p + 1, p + 1 + n)
    IN  Ret(p + 1 + n, dat, <<"LIT", n>>, hist_extend(h, dat))

\* mutant of op_short_repeat_literal: the bias is left out
op_short_repeat_literal_nobias(cmd, src, p, h) ==
    LET n == BitAnd(cmd, 63)
    IN  IF ~InRange(src, p + 1) THEN Raise("IndexError", h)
        ELSE LET val == At(src, p + 1)
                 dat == Repeat(val, n)
             IN  Ret(p + 2, dat, <<"R_SHRT_LIT", n, val>>, hist_extend(h, dat))

op_short_repeat_literal(cmd, src, p, h) ==
    LET n == BitAnd(cmd, 63) + SHORT_REPEAT_LITERAL_BIAS
    IN  IF ~InRange(src, p + 1) THEN Raise("IndexError", h)
        ELSE LET val == At(src, p + 1)
                 dat == Repeat(val, n)
             IN  Ret(p + 2, dat, <<"R_SHRT_LIT", n, val>>, hist_extend(h, dat))

\* mutant of op_copy2: the index does not advance with i
op_copy2_fixed_index(cmd, src, p, h) ==
    LET dist == BitAnd(cmd, 31) + COPY_2_BIAS
    IN  IF hist_len(h) < dist THEN Raise("ValueError", h)
        ELSE LET payload == [i \in 1..2 |-> hist_index(h, 0 - dist)]
             IN  Ret(p + 1, payload, <<"SHRT_CPY2", dist>>,
                     hist_extend(h, payload))

op_copy2(cmd, src, p, h) ==
    LET dist == BitAnd(cmd, 31) + COPY_2_BIAS
    IN  IF hist_len(h) < dist THEN Raise("ValueError", h)
        ELSE LET payload == [i \in 1..2 |-> hist_index(h, (i - 1) - dist)]
             IN  Ret(p + 1, payload, <<"SHRT_CPY2", dist>>,
                     hist_extend(h, payload))

\* mutant of op_long_repeat_literal: the high bits are shifted by 4, not 8
op_long_repeat_literal_shift4(cmd, src, p, h) ==
    IF ~InRange(src, p + 1) THEN Raise("IndexError", h)
    ELSE LET n == Shl(BitAnd(cmd, 31), 4) + At(src, p + 1)
                    + LONG_REPEAT_LITERAL_BIAS
         IN  IF ~InRange(src, p + 2) THEN Raise("IndexError", h)
             ELSE LET val == At(src, p + 2)
                      dat == Repeat(val, n)
                  IN  Ret(p + 3, dat, <<"R_LONG_LIT", n, val>>,
                          hist_extend(h, dat))

op_long_repeat_literal(cmd, src, p, h) ==
    IF ~InRange(src, p + 1) THEN Raise("IndexError", h)
    ELSE LET n == Shl(BitAnd(cmd, 31), 8) + At(src, p + 1)
                    + LONG_REPEAT_LITERAL_BIAS
         IN  IF ~InRange(src, p + 2) THEN Raise("IndexError", h)
             ELSE LET val == At(src, p + 2)
                      dat == Repeat(val, n)
                  IN  Ret(p + 3, dat, <<"R_LONG_LIT", n, val>>,
                          hist_extend(h, dat))

op_copy3(cmd, src, p, h) ==
    LET dist == BitAnd(cmd, 31) + COPY_3_BIAS
    IN  IF hist_len(h) < dist THEN Raise("ValueError", h)
        ELSE LET payload == [i \in 1..3 |-> hist_index(h, (i - 1) - dist)]
             IN  Ret(p + 1, payload, <<"SHRT_CPY3", dist>>,
                     hist_extend(h, payload))

\* mutant of long_op_copy: the distance is the offset, without the bias
long_op_copy_nobias(cmd, src, p, h) ==
    LET group  == Shr(cmd, 4) - 12
        base   == 4 * group + 4
        extra  == BitAnd(Shr(cmd, 2), 3)
        length == base + extra
    IN  IF ~InRange(src, p + 1) THEN Raise("IndexError", h)
        ELSE LET lo     == At(src, p + 1)
                 hi     == BitAnd(cmd, 3)
                 offset == BitOr(Shl(hi, 8), lo)
                 dist   == offset
             IN  IF hist_len(h) < dist THEN Raise("ValueError", h)
                 ELSE LET payload ==
                              [i \in 1..length |-> hist_index(h, (i - 1) - dist)]
                      IN  Ret(p + 2, payload, <<"COPY", length, dist>>,
                              hist_extend(h, payload))

\* mutant of long_op_copy: only the low bit of cmd extends the offset
long_op_copy_9bit(cmd, src, p, h) ==
    LET group  == Shr(cmd, 4) - 12
        base   == 4 * group + 4
        extra  == BitAnd(Shr(cmd, 2), 3)
        length == base + extra
        bias   == length
    IN  IF ~InRange(src, p + 1) THEN Raise("IndexError", h)
        ELSE LET lo     == At(src, p + 1)
                 hi     == BitAnd(cmd, 1)
                 offset == BitOr(Shl(hi, 8), lo)
                 dist   == offset + bias
             IN  IF hist_len(h) < dist THEN Raise("ValueError", h)
                 ELSE LET payload ==
                              [i \in 1..length |-> hist_index(h, (i - 1) - dist)]
                      IN  Ret(p + 2, payload, <<"COPY", length, dist>>,
                              hist_extend(h, payload))

long_op_copy(cmd, src, p, h) ==
    LET group  == Shr(cmd, 4) - 12
        base   == 4 * group + 4
        extra  == BitAnd(Shr(cmd, 2), 3)
        length == base + extra
        bias   == length
    IN  IF ~InRange(src, p + 1) THEN Raise("IndexError", h)
        ELSE LET lo     == At(src, p + 1)
                 hi     == BitAnd(cmd, 3)
                 offset == BitOr(Shl(hi, 8), lo)
                 dist   == offset + bias
             IN  IF hist_len(h) < dist THEN Raise("ValueError", h)
                 ELSE LET payload ==
                              [i \in 1..length |-> hist_index(h, (i - 1) - dist)]
                      IN  Ret(p + 2, payload, <<"COPY", length, dist>>,
                              hist_extend(h, payload))

\* ---------------------------------------------------------- command table
\* HANDLERS is scanned in order; the first entry whose condition holds runs.
\* handler_index is that entry's position, 0 when no condition holds.
\* mutant of handler_cond: the short repeat's range reaches 0x60
handler_cond_overlap(k, c) ==
    CASE k = 1 -> 1 <= c /\ c <= 31
      [] k = 2 -> 64 <= c /\ c <= 96
      [] k = 3 -> 96 <= c /\ c <= 127
      [] k = 4 -> 128 <= c /\ c <= 159
      [] k = 5 -> 160 <= c /\ c <= 191
      [] k = 6 -> 192 <= c /\ c <= 255

handler_cond(k, c) ==
    CASE k = 1 -> 1 <= c /\ c <= 31
      [] k = 2 -> 64 <= c /\ c <= 95
      [] k = 3 -> 96 <= c /\ c <= 127
      [] k = 4 -> 128 <= c /\ c <= 159
      [] k = 5 -> 160 <= c /\ c <= 191
      [] k = 6 -> 192 <= c /\ c <= 255

handler_fn(k, cmd, src, p, h) ==
    CASE k = 1 -> op_literal(cmd, src, p, h)
      [] k = 2 -> op_short_repeat_literal(cmd, src, p, h)
      [] k = 3 -> op_long_repeat_literal(cmd, src, p, h)
      [] k = 4 -> op_copy2(cmd, src, p, h)
      [] k = 5 -> op_copy3(cmd, src, p, h)
      [] k = 6 -> long_op_copy(cmd, src, p, h)

handler_index(c) ==
    IF \E k \in 1..6 : handler_cond(k, c)
    THEN CHOOSE k \in 1..6 :
             handler_cond(k, c) /\ \A j \in 1..(k - 1) : ~handler_cond(j, c)
    ELSE 0

\* ------------------------------------------------------------------ decoder
\* The locals of one decode() call; pc is "loop" while the while-loop runs,
\* "returned" after `return bytes(out), trace`, "raised" when an exception
\* left the call.
decode_locals ==
    [pos |-> 0, out |-> << >>, hist |-> NewHist, trace |-> << >>,
     frame |-> 0, pc |-> "loop", exc |-> NoExc, frames |-> << >>]

TraceEntry(p, raw, note, payload) ==
    [pos |-> p, raw |-> raw, note |-> note, payload |-> payload]

\* mutant of loop_exit: a stream that ends without a terminator is an error
loop_exit_reports(l) == [l EXCEPT !.pc = "raised", !.exc = "MissingTerminator"]

\* `while pos < len(stream)` is false: fall through to the return
loop_exit(l) == [l EXCEPT !.pc = "returned"]

\* mutant of term_step: the break is missing, the byte is stepped over
term_step_nobreak(l) ==
    [l EXCEPT !.trace = Append(@, TraceEntry(l.pos, <<0>>, <<"TERM">>, << >>)),
              !.pos = @ + 1]

\* stream[pos] == 0x00: trace.append(TERM); break
term_step(l) ==
    [l EXCEPT !.trace = Append(@, TraceEntry(l.pos, <<0>>, <<"TERM">>, << >>)),
              !.pc = "returned"]

\* a budget test is true: break
budget_break(l) == [l EXCEPT !.pc = "returned"]

\* mutant of handler_applied: the output is what the history window holds
handler_applied_out_from_window(src, l, r) ==
    [l EXCEPT
       !.trace = Append(@, TraceEntry(l.pos, Slice(src, l.pos, r.nxt),
                                      r.note, r.payload)),
       !.out = r.hist.data,
       !.pos = r.nxt,
       !.hist = r.hist]

\* trace.append(...); out.extend(payload); pos = nxt
handler_applied(src, l, r) ==
    [l EXCEPT
       !.trace = Append(@, TraceEntry(l.pos, Slice(src, l.pos, r.nxt),
                                      r.note, r.payload)),
       !.out = @ \o r.payload,
       !.pos = r.nxt,
       !.hist = r.hist]

\* mutant of hook_call: the callback gets the count before the increment
hook_call_count_before(l, cb) ==
    LET f  == l.frame + 1
        l2 == [l EXCEPT !.frame = f, !.frames = Append(@, <<l.frame, l.out>>)]
    IN  IF HookRaises(cb, f) THEN [l2 EXCEPT !.pc = "raised", !.exc = "OSError"]
        ELSE l2

\* frame += 1; save_frame_cb(frame, bytes(out)): the call is logged in
\* frames; an exception of the callback leaves decode()
hook_call(l, cb) ==
    LET f  == l.frame + 1
        l2 == [l EXCEPT !.frame = f, !.frames = Append(@, <<f, l.out>>)]
    IN  IF HookRaises(cb, f) THEN [l2 EXCEPT !.pc = "raised", !.exc = "OSError"]
        ELSE l2

\* mutant of handler_step: a 0x00 among the bytes an opcode consumed ends
\* the call like a terminator
handler_step_zero_operand_ends(src, l, r, stp, cb) ==
    IF r.raised THEN [l EXCEPT !.pc = "raised", !.exc = r.exc]
    ELSE IF \E i \in 1..Len(Slice(src, l.pos, r.nxt)) :
                Slice(src, l.pos, r.nxt)[i] = 0
         THEN [handler_applied(src, l, r) EXCEPT !.pc = "returned"]
    ELSE IF stp /\ HasHook(cb) THEN hook_call(handler_applied(src, l, r), cb)
    ELSE handler_applied(src, l, r)

\* mutant of handler_step: with a hook installed the payload goes to the
\* hook's snapshot only, the trace entry is not recorded
handler_step_hook_steals_trace(src, l, r, stp, cb) ==
    IF r.raised THEN [l EXCEPT !.pc = "raised", !.exc = r.exc]
    ELSE IF stp /\ HasHook(cb)
         THEN hook_call([handler_applied(src, l, r) EXCEPT !.trace = l.trace], cb)
    ELSE handler_applied(src, l, r)

\* the handler found by the for-loop ran, with result r (the print under
\* `if step` writes to stdout only)
handler_step(src, l, r, stp, cb) ==
    IF r.raised THEN [l EXCEPT !.pc = "raised", !.exc = r.exc]
    ELSE IF stp /\ HasHook(cb) THEN hook_call(handler_applied(src, l, r), cb)
    ELSE handler_applied(src, l, r)

\* mutant of unknown_step: the entry is recorded, the position stays
unknown_step_stays(src, l) ==
    [l EXCEPT
       !.trace = Append(@, TraceEntry(l.pos, <<At(src, l.pos)>>, <<"UNK">>, << >>))]

\* the for-loop's else: no handler matched
unknown_step(src, l) ==
    [l EXCEPT
       !.trace = Append(@, TraceEntry(l.pos, <<At(src, l.pos)>>, <<"UNK">>, << >>)),
       !.pos = @ + 1]

\* mutant of branch: the output budget is compared with > instead of >=
branch_pix_gt(src, sp, ss, l) ==
    IF ~(l.pos < Len(src)) THEN "exit"
    ELSE IF At(src, l.pos) = 0 THEN "term"
    ELSE IF Truthy(ss) /\ l.pos >= ss THEN "stop_src"
    ELSE IF Truthy(sp) /\ Len(l.out) > sp THEN "stop_pix"
    ELSE IF handler_index(At(src, l.pos)) # 0 THEN "handler"
    ELSE "unknown"

\* which branch one pass through the while-loop takes
branch(src, sp, ss, l) ==
    IF ~(l.pos < Len(src)) THEN "exit"
    ELSE IF At(src, l.pos) = 0 THEN "term"
    ELSE IF Truthy(ss) /\ l.pos >= ss THEN "stop_src"
    ELSE IF Truthy(sp) /\ Len(l.out) >= sp THEN "stop_pix"
    ELSE IF handler_index(At(src, l.pos)) # 0 THEN "handler"
    ELSE "unknown"

\* one pass through the while-loop of decode()
decode_body(src, sp, ss, stp, cb, l) ==
    LET b == branch(src, sp, ss, l)
    IN  CASE b = "exit"     -> loop_exit(l)
          [] b = "term"     -> term_step(l)
          [] b = "stop_src" -> budget_break(l)
          [] b = "stop_pix" -> budget_break(l)
          [] b = "handler"  ->
                 LET cmd == At(src, l.pos)
                 IN  handler_step(src, l,
                         handler_fn(handler_index(cmd), cmd, src, l.pos, l.hist),
                         stp, cb)
          [] b = "unknown"  -> unknown_step(src, l)

\* the while-loop run to its end
RECURSIVE decode_run(_, _, _, _, _, _)
decode_run(src, sp, ss, stp, cb, l) ==
    IF l.pc # "loop" THEN l
    ELSE decode_run(src, sp, ss, stp, cb, decode_body(src, sp, ss, stp, cb, l))

\* decode(stream, stop_pix, stop_src, step=stp, save_frame_cb=cb)
decode_kw(src, sp, ss, stp, cb) == decode_run(src, sp, ss, stp, cb, decode_locals)

\* decode(stream, stop_pix, stop_src): step=False, save_frame_cb=None
decode(src, sp, ss) == decode_kw(src, sp, ss, FALSE, None)

\* ------------------------------------------------------------ decode inputs
\* Streams tried: a preamble that fills the output, then every command byte
\* 0..255, then a tail that supplies its operands and the next commands.
Byte == 0..255

\* preambles: nothing; LIT 2 (0A 0B); R_LONG_LIT 804x04, R_LONG_LIT 74x07,
\* LIT 2 (0A 0B), which leaves 880 bytes of output
Preambles ==
    { << >>,
      <<2, 10, 11>>,
      <<99, 0, 4, 96, 38, 7, 2, 10, 11>> }

\* tails: 0x00 (terminator / zero operand) and 0x41 (a short-repeat command)
\* alternating, starting with either, cut at every length up to MaxTail
AltTail(first, n) ==
    [i \in 1..n |-> IF i % 2 = 1 THEN first ELSE 65 - first]

\* LongTailLen distinct bytes 1, 2, ...: room for the longest literal (0x1F)
LongTail == [i \in 1..LongTailLen |-> i]

Tails == {AltTail(f, n) : f \in {0, 65}, n \in 0..MaxTail} \cup {LongTail}

\* the end-to-end scenarios: LIT 3 then end; R_SHRT_LIT 4x05 then end
Examples == { <<3, 16, 32, 48, 0>>, <<65, 5, 0>> }

Streams ==
    {p \o <<c>> \o t : p \in Preambles, c \in Byte, t \in Tails} \cup Examples

PixBudgets == {None} \cup (1..MaxPix)
SrcBudgets == {None} \cup (0..MaxSrc)

\* -------------------------------------------------------------- palette_vga
\* entries of the colour table
PaletteEntries == 256
\* the default of load_vga_palette's offset argument (0x100)
DefaultOffset == 256

PaletteIncomplete == "ValueError: Palette data incomplete."
BytesRange == "ValueError: bytes must be in range(0, 256)"

\* load_vga_palette(path, offset), file being the bytes read from path:
\* the slice clamps; bytes((b*4, g*4, r*4, 0)) raises ValueError when a
\* component is above 255; each entry is B, G, R, 0
load_vga_palette(file, off) ==
    LET raw == Slice(file, off, off + PaletteEntries * 3)
    IN  IF Len(raw) < PaletteEntries * 3
        THEN [pc |-> "raised", exc |-> PaletteIncomplete, bgrx |-> << >>]
        ELSE IF \E i \in 1..(PaletteEntries * 3) : raw[i] * 4 > 255
        THEN [pc |-> "raised", exc |-> BytesRange, bgrx |-> << >>]
        ELSE [pc |-> "returned", exc |-> NoExc,
              bgrx |-> [k \in 1..(PaletteEntries * 4) |->
                          IF (k - 1) % 4 = 3 THEN 0
                          ELSE raw[3 * ((k - 1) \div 4) + 3 - ((k - 1) % 4)] * 4]]

\* palette files: 6-bit values everywhere but at one position, which holds v
PaletteFile(len, at, v) ==
    [i \in 1..len |-> IF i = at THEN v ELSE (7 * i) % 64]

PaletteLens ==
    {0} \cup {o + PaletteEntries * 3 + d :
                 o \in {0, DefaultOffset}, d \in (0 - MaxShort)..MaxExtra}

\* first and last byte of the table at either offset, the byte before it and
\* the byte after it
PalettePokes ==
    {o + k : o \in {0, DefaultOffset},
             k \in {0, 1, PaletteEntries * 3, PaletteEntries * 3 + 1}}

PaletteFiles ==
    {PaletteFile(len, at, v) :
        len \in PaletteLens, at \in PalettePokes, v \in {0, 63, 64, 255}}

\* load_vga_palette has not been called
NoPalette ==
    /\ path = << >>
    /\ pal_offset = DefaultOffset
    /\ palette = [pc |-> "idle", exc |-> NoExc, bgrx |-> << >>]

\* ------------------------------------------------------------ state machine
\* decode() is entered: its locals are created
Entry ==
    /\ pos = decode_locals.pos
    /\ out = decode_locals.out
    /\ hist = decode_locals.hist
    /\ trace = decode_locals.trace
    /\ frame = decode_locals.frame
    /\ pc = decode_locals.pc
    /\ exc = decode_locals.exc
    /\ frames = decode_locals.frames

Init ==
    /\ stream \in Streams
    /\ stop_pix \in PixBudgets
    /\ stop_src \in SrcBudgets
    /\ step = FALSE
    /\ save_frame_cb = None
    /\ Entry
    /\ calls = << >>
    /\ NoPalette

Locals ==
    [pos |-> pos, out |-> out, hist |-> hist, trace |-> trace,
     frame |-> frame, pc |-> pc, exc |-> exc, frames |-> frames]

Branch == branch(stream, stop_pix, stop_src, Locals)

\* the handler the dispatch table selects for the byte at pos (0: none)
Selected == IF InRange(stream, pos) THEN handler_index(At(stream, pos)) ELSE 0

\* one pass through the while-loop, applied to the state
Pass ==
    \E n \in {decode_body(stream, stop_pix, stop_src, step, save_frame_cb,
                            Locals)} :
        /\ pos' = n.pos
        /\ out' = n.out
        /\ hist' = n.hist
        /\ trace' = n.trace
        /\ frame' = n.frame
        /\ pc' = n.pc
        /\ exc' = n.exc
        /\ frames' = n.frames
        /\ UNCHANGED <<stream, stop_pix, stop_src, step, save_frame_cb, calls,
                       path, pal_offset, palette>>

Return      == pc = "loop" /\ Branch = "exit" /\ Pass
Terminator  == pc = "loop" /\ Branch = "term" /\ Pass
StopSrc     == pc = "loop" /\ Branch = "stop_src" /\ Pass
StopPix     == pc = "loop" /\ Branch = "stop_pix" /\ Pass
Literal     == pc = "loop" /\ Branch = "handler" /\ Selected = 1 /\ Pass
ShortRepeat == pc = "loop" /\ Branch = "handler" /\ Selected = 2 /\ Pass
LongRepeat  == pc = "loop" /\ Branch = "handler" /\ Selected = 3 /\ Pass
Copy2       == pc = "loop" /\ Branch = "handler" /\ Selected = 4 /\ Pass
Copy3       == pc = "loop" /\ Branch = "handler" /\ Selected = 5 /\ Pass
LongCopy    == pc = "loop" /\ Branch = "handler" /\ Selected = 6 /\ Pass
Unknown     == pc = "loop" /\ Branch = "unknown" /\ Pass

Next ==
    \/ Return
    \/ Terminator
    \/ StopSrc
    \/ StopPix
    \/ Literal
    \/ ShortRepeat
    \/ LongRepeat
    \/ Copy2
    \/ Copy3
    \/ LongCopy
    \/ Unknown

Spec == Init /\ [][Next]_vars

\* ------------------------------------------------------------- every stream
\* all streams of up to MaxLen bytes over the terminator, an unassigned byte
\* and one command of every family, as they are and followed by a long
\* repeat with its two operand bytes and a copy
FairBytes == {0, 1, 32, 65, 96, 128, 160, 192}

FairStreams ==
    {s \o t : s \in UNION {[1..n -> FairBytes] : n \in 0..MaxLen},
              t \in { << >>, <<96, 1, 65, 128>> }}

\* <<stop_pix, stop_src>>: none, the input budget 0, and budgets of 1
FairBudgets == { <<None, None>>, <<None, 0>>, <<1, None>>, <<None, 1>> }

InitFair ==
    /\ stream \in FairStreams
    /\ \E b \in FairBudgets : stop_pix = b[1] /\ stop_src = b[2]
    /\ step = FALSE
    /\ save_frame_cb = None
    /\ Entry
    /\ calls = << >>
    /\ NoPalette

\* decode() runs in one thread and nothing suspends it: a pass of the loop
\* that can be taken is taken
SpecFair == InitFair /\ [][Next]_vars /\ WF_vars(Next)

\* ------------------------------------------------------- stepping with a hook
\* decode(..., step=..., save_frame_cb=...): after 0A 0B every family, the
\* terminator and an unassigned byte (0x20), followed by the tails
HookCmds == {0, 1, 32, 65, 96, 128, 160, 192}

HookStreams == {<<2, 10, 11>> \o <<c>> \o t : c \in HookCmds, t \in Tails}

\* the callbacks: none, one that never fails, one that raises at its k-th call
Hooks == {None} \cup (0..MaxFailAt)

InitHook ==
    /\ stream \in HookStreams
    /\ stop_pix \in PixBudgets
    /\ stop_src \in SrcBudgets
    /\ step \in BOOLEAN
    /\ save_frame_cb \in Hooks
    /\ Entry
    /\ calls = << >>
    /\ NoPalette

SpecHook == InitHook /\ [][Next]_vars

\* ------------------------------------------------- output beyond the window
\* R_LONG_LIT 4132 x 04, R_LONG_LIT 74 x 07, LIT 0A 0B: 4208 bytes, of which
\* the first 112 have left the window; then every copy command and one
\* command of every other kind, with operand bytes 00, 41 and FF
WindowPreamble == <<112, 0, 4, 96, 38, 7, 2, 10, 11>>

WindowCmds == (128..255) \cup {0, 1, 32, 65, 96}

WindowTails == { <<0>>, <<65, 0>>, <<255, 128>> }

WindowStreams ==
    {WindowPreamble \o <<c>> \o t : c \in WindowCmds, t \in WindowTails}

\* <<stop_pix, stop_src>>: no budget, or one reached after the first command
WindowBudgets == { <<None, None>>, <<1, None>>, <<None, 1>> }

InitWindow ==
    /\ stream \in WindowStreams
    /\ \E b \in WindowBudgets : stop_pix = b[1] /\ stop_src = b[2]
    /\ step = FALSE
    /\ save_frame_cb = None
    /\ Entry
    /\ calls = << >>
    /\ NoPalette

SpecWindow == InitWindow /\ [][Next]_vars

\* ------------------------------------------------------------ palette loading
\* main() loads the palette before it calls decode()
InitPalette ==
    /\ stream = << >>
    /\ stop_pix = None
    /\ stop_src = None
    /\ step = FALSE
    /\ save_frame_cb = None
    /\ Entry
    /\ calls = << >>
    /\ path \in PaletteFiles
    /\ pal_offset \in {0, DefaultOffset}
    /\ palette = [pc |-> "call", exc |-> NoExc, bgrx |-> << >>]

LoadPalette ==
    /\ palette.pc = "call"
    /\ palette' = load_vga_palette(path, pal_offset)
    /\ UNCHANGED <<stream, stop_pix, stop_src, step, save_frame_cb,
                   pos, out, hist, trace, frame, pc, exc, frames, calls,
                   path, pal_offset>>

NextPalette == LoadPalette

SpecPalette == InitPalette /\ [][NextPalette]_vars

\* ------------------------------------------------- several calls, one process
\* decode() is called again after a call has ended; nothing but the module
\* constants is shared between calls.
\* inputs <<stream, stop_pix, stop_src>>: LIT + TERM; SHRT_CPY2 and COPY4 on a
\* fresh history; R_SHRT_LIT + SHRT_CPY3; R_LONG_LIT + COPY4 + UNK; the two
\* budgets
CallInputs ==
    { <<<<2, 10, 11, 0>>, None, None>>,
      <<<<128>>, None, None>>,
      <<<<192, 0>>, None, None>>,
      <<<<65, 5, 160>>, None, None>>,
      <<<<96, 0, 7, 192, 0, 32>>, None, None>>,
      <<<<2, 10, 11, 128>>, 1, None>>,
      <<<<2, 10, 11, 128>>, None, 1>> }

\* what the call that has just ended was given and what it gave back
Finished ==
    [stream |-> stream, stop_pix |-> stop_pix, stop_src |-> stop_src,
     out |-> out, trace |-> trace, pc |-> pc, exc |-> exc]

\* mutant of CallAgain: the history deque outlives the call
CallAgainKeepsHist ==
    /\ pc # "loop"
    /\ Len(calls) < MaxCalls
    /\ calls' = Append(calls, Finished)
    /\ \E a \in CallInputs :
           stream' = a[1] /\ stop_pix' = a[2] /\ stop_src' = a[3]
    /\ pos' = decode_locals.pos
    /\ out' = decode_locals.out
    /\ hist' = hist
    /\ trace' = decode_locals.trace
    /\ frame' = decode_locals.frame
    /\ pc' = decode_locals.pc
    /\ exc' = decode_locals.exc
    /\ frames' = decode_locals.frames
    /\ UNCHANGED <<step, save_frame_cb, path, pal_offset, palette>>

\* the caller calls decode() again: new arguments, new locals
CallAgain ==
    /\ pc # "loop"
    /\ Len(calls) < MaxCalls
    /\ calls' = Append(calls, Finished)
    /\ \E a \in CallInputs :
           stream' = a[1] /\ stop_pix' = a[2] /\ stop_src' = a[3]
    /\ pos' = decode_locals.pos
    /\ out' = decode_locals.out
    /\ hist' = decode_locals.hist
    /\ trace' = decode_locals.trace
    /\ frame' = decode_locals.frame
    /\ pc' = decode_locals.pc
    /\ exc' = decode_locals.exc
    /\ frames' = decode_locals.frames
    /\ UNCHANGED <<step, save_frame_cb, path, pal_offset, palette>>

InitCalls ==
    /\ \E a \in CallInputs :
           stream = a[1] /\ stop_pix = a[2] /\ stop_src = a[3]
    /\ step = FALSE
    /\ save_frame_cb = None
    /\ Entry
    /\ calls = << >>
    /\ NoPalette

NextCalls ==
    \/ Next
    \/ CallAgain

SpecCalls == InitCalls /\ [][NextCalls]_vars

\* ====================================================================
\* Properties
\* ====================================================================
\* the byte at the current command position, and whether this pass through
\* the loop applies an opcode to it (no terminator, no budget stop, a
\* handler matches)
Cmd == At(stream, pos)
Applies == pc = "loop" /\ Branch = "handler"
LastEntry == trace[Len(trace)]

\* the back-reference distance each copy family encodes
Copy2Dist(c) == BitAnd(c, 31) + 2
Copy3Dist(c) == BitAnd(c, 31) + 3
LongCopyLength(c) == 4 * (Shr(c, 4) - 12) + 4 + BitAnd(Shr(c, 2), 3)
LongCopyOffset(c, b1) == BitOr(Shl(BitAnd(c, 3), 8), b1)
LongCopyDist(c, b1) == LongCopyOffset(c, b1) + LongCopyLength(c)

\* bytes of `o` from 0-based index a, k of them
Window(o, a, k) == SubSeq(o, a + 1, a + k)

\* C1: a Copy-2, Copy-3 or Long-copy opcode whose distance exceeds the number
\* of bytes produced so far aborts the call with an error and produces no
\* payload.
C1_OutOfHistoryAborts ==
    [][ /\ Applies
        /\ \/ Cmd \in 128..159 /\ Copy2Dist(Cmd) > Len(out)
           \/ Cmd \in 160..191 /\ Copy3Dist(Cmd) > Len(out)
           \/ /\ Cmd \in 192..255
              /\ InRange(stream, pos + 1)
              /\ LongCopyDist(Cmd, At(stream, pos + 1)) > Len(out)
        => pc' = "raised" /\ exc' = "ValueError" /\ out' = out ]_vars

\* C2: a command byte in the unassigned range 0x20-0x3F (with no budget
\* reached) halts decode in failure; the byte is not skipped.
C2_UnknownOpcodeFatal ==
    [][ /\ pc = "loop"
        /\ InRange(stream, pos)
        /\ Cmd \in 32..63
        /\ Branch \notin {"stop_src", "stop_pix"}
        => pc' = "raised" /\ pos' = pos ]_vars

\* the extra bytes each family reads after its command byte
ExtraBytes(c) ==
    IF c \in 1..31 THEN c
    ELSE IF c \in 64..95 THEN 1
    ELSE IF c \in 96..127 THEN 2
    ELSE IF c \in 192..255 THEN 1
    ELSE 0

\* C3: an opcode whose extra bytes or literal payload extend past the end of
\* the input makes decode fail with TruncatedStream; no shortened payload,
\* no other fault.
C3_TruncatedStreamReported ==
    [][ /\ Applies
        /\ pos + 1 + ExtraBytes(Cmd) > Len(stream)
        => pc' = "raised" /\ exc' = "TruncatedStream" /\ out' = out ]_vars

\* C4: a literal command n in 0x01-0x1F at position p followed by at least n
\* bytes appends exactly stream[p+1 .. p+n] and moves the position to p+n+1;
\* [03 10 20 30 00] decodes to [10 20 30].
C4_LiteralAppends ==
    [][ /\ Applies
        /\ Cmd \in 1..31
        /\ pos + 1 + Cmd <= Len(stream)
        => /\ out' = out \o Window(stream, pos + 1, Cmd)
           /\ pos' = pos + Cmd + 1
           /\ pc' = "loop"
           /\ (stream = <<3, 16, 32, 48, 0>> => out' = <<16, 32, 48>>) ]_vars

C4_Witness ==
    /\ stream = <<3, 16, 32, 48, 0>>
    /\ pc = "returned"
    /\ out = <<16, 32, 48>>
    /\ pos = 4

\* C5: a short-repeat command c in 0x40-0x5F followed by a value byte v
\* appends exactly (c & 0x3F) + 3 copies of v, between 3 and 34 bytes, and
\* moves the position by 2; [41 05 00] decodes to four bytes 05.
C5_ShortRepeatAppends ==
    [][ /\ Applies
        /\ Cmd \in 64..95
        /\ InRange(stream, pos + 1)
        => LET n == BitAnd(Cmd, 63) + 3
               v == At(stream, pos + 1)
           IN  /\ n \in 3..34
               /\ out' = out \o [i \in 1..n |-> v]
               /\ pos' = pos + 2
               /\ pc' = "loop"
               /\ (stream = <<65, 5, 0>> => out' = <<5, 5, 5, 5>>) ]_vars

C5_Witness ==
    /\ stream = <<65, 5, 0>>
    /\ pc = "returned"
    /\ out = <<5, 5, 5, 5>>
    /\ pos = 2

\* C6: a long-repeat command c in 0x60-0x7F followed by bytes b1 and b2
\* appends exactly ((c & 0x1F) << 8) + b1 + 36 copies of b2 and moves the
\* position by 3.
C6_LongRepeatAppends ==
    [][ /\ Applies
        /\ Cmd \in 96..127
        /\ InRange(stream, pos + 2)
        => LET n  == Shl(BitAnd(Cmd, 31), 8) + At(stream, pos + 1) + 36
               b2 == At(stream, pos + 2)
           IN  /\ out' = out \o [i \in 1..n |-> b2]
               /\ pos' = pos + 3
               /\ pc' = "loop" ]_vars

\* the largest run: command 7F, count byte 41 gives 31*256 + 65 + 36 bytes
C6_Witness ==
    /\ trace # << >>
    /\ LastEntry.note[1] = "R_LONG_LIT"
    /\ LastEntry.raw = <<127, 65, 0>>
    /\ Len(LastEntry.payload) = 8037
    /\ Len(out) = 880 + 8037
    /\ pos = 12

\* C7: a Copy-k command (k = 2: 0x80-0x9F, k = 3: 0xA0-0xBF) with distance
\* d = (c & 0x1F) + k, applied when L >= d bytes have been produced, appends
\* exactly out[L-d .. L-d+k-1] and moves the position by 1; with the output
\* ending in 0A 0B, command 80 appends 0A 0B.
C7_ShortCopyAppends ==
    [][ \A k \in {2, 3} :
          /\ Applies
          /\ Cmd \in (IF k = 2 THEN 128..159 ELSE 160..191)
          /\ Len(out) >= BitAnd(Cmd, 31) + k
          => LET d == BitAnd(Cmd, 31) + k
                 L == Len(out)
             IN  /\ out' = out \o Window(out, L - d, k)
                 /\ pos' = pos + 1
                 /\ pc' = "loop"
                 /\ (Cmd = 128 /\ Window(out, L - 2, 2) = <<10, 11>>
                       => out' = out \o <<10, 11>>) ]_vars

C7_Witness ==
    /\ Len(stream) >= 4
    /\ SubSeq(stream, 1, 4) = <<2, 10, 11, 128>>
    /\ pos = 4
    /\ out = <<10, 11, 10, 11>>

C9_TerminatorHalts ==
    [][ /\ pc = "loop"
        /\ InRange(stream, pos)
        /\ Cmd = 0
        => /\ pc' = "returned"
           /\ exc' = NoExc
           /\ out' = out
           /\ \A t \in Tails :
                  LET r == decode(SubSeq(stream, 1, pos + 1) \o t,
                                  stop_pix, stop_src)
                  IN  r.pc = "returned" /\ r.out = out'
           /\ (stream = <<0>> => out' = << >>) ]_vars

C9_Witness ==
    /\ pc = "returned"
    /\ trace # << >>
    /\ LastEntry.note[1] = "TERM"
    /\ pos > 0
    /\ pos + 1 < Len(stream)
    /\ out # << >>

\* C10: with an output budget stop_pix = PIX >= 1 the output never holds more
\* than PIX bytes.
C10_OutputWithinBudget ==
    (stop_pix # None /\ stop_pix >= 1) => Len(out) <= stop_pix

\* s is a prefix of t
IsPrefix(s, t) == Len(s) <= Len(t) /\ SubSeq(t, 1, Len(s)) = s

\* an entry of the trace that records an applied opcode
IsApplied(e) == e.note[1] \notin {"TERM", "UNK"}

\* C11: with an output budget B >= 1, at a step where the accumulator already
\* holds at least B bytes no opcode is applied: decode returns without an
\* error, the output is left as it is, and it is a prefix of what the same
\* stream produces without any budget.
C11_BudgetStopIsSuccess ==
    [][ /\ pc = "loop"
        /\ stop_pix # None
        /\ stop_pix >= 1
        /\ Len(out) >= stop_pix
        => /\ pc' = "returned"
           /\ exc' = NoExc
           /\ out' = out
           /\ IsPrefix(out', decode(stream, None, None).out) ]_vars

\* a budget stop in front of an opcode that would have produced more
C11_Witness ==
    /\ pc = "returned"
    /\ stop_pix # None
    /\ stop_pix >= 1
    /\ Len(out) >= stop_pix
    /\ InRange(stream, pos)
    /\ At(stream, pos) # 0
    /\ handler_index(At(stream, pos)) # 0
    /\ Len(decode(stream, None, None).out) > Len(out)

\* C12: with an input budget N (any N >= 0, 0 included) no opcode whose
\* command byte lies at offset >= N is applied; for N = 0 the output is empty.
C12_InputBudgetStops ==
    stop_src # None =>
        /\ \A i \in 1..Len(trace) :
               IsApplied(trace[i]) => trace[i].pos < stop_src
        /\ (stop_src = 0 => out = << >>)

\* the calls that have ended, the current one included once it has ended
EndedCalls == IF pc # "loop" THEN Append(calls, Finished) ELSE calls

SameInputs(a, b) ==
    a.stream = b.stream /\ a.stop_pix = b.stop_pix /\ a.stop_src = b.stop_src

\* C13: two decode calls with the same stream and budgets give the same
\* output and the same trace (and end the same way), whatever calls were
\* made before or between them.
C13_CallsIndependent ==
    \A i, j \in 1..Len(EndedCalls) :
        SameInputs(EndedCalls[i], EndedCalls[j]) =>
            /\ EndedCalls[i].out = EndedCalls[j].out
            /\ EndedCalls[i].pc = EndedCalls[j].pc
            /\ EndedCalls[i].exc = EndedCalls[j].exc
            /\ EndedCalls[i].trace = EndedCalls[j].trace

\* SHRT_CPY2 on a fresh history, then a call that writes 0A 0B, then the
\* first call again
C13_Witness ==
    /\ Len(calls) = 2
    /\ pc = "returned"
    /\ stream = <<128>>
    /\ calls[1].stream = <<128>>
    /\ calls[2].stream = <<2, 10, 11, 0>>
    /\ calls[2].out = <<10, 11>>
    /\ out = <<0, 0>>

\* the same call without stepping and without a hook
Hookless == decode(stream, stop_pix, stop_src)

HookFailed == pc = "raised" /\ exc = "OSError"

\* C14: with stepping on and a hook that does not fail, decode ends with the
\* same output, the same trace, at the same position and in the same way as
\* the call without a hook.
C14_HookObservational ==
    (pc # "loop" /\ step /\ HasHook(save_frame_cb) /\ ~HookFailed) =>
        /\ out = Hookless.out
        /\ pos = Hookless.pos
        /\ pc = Hookless.pc
        /\ exc = Hookless.exc
        /\ trace = Hookless.trace

\* three opcodes applied, the hook called three times
C14_Witness ==
    /\ pc = "returned"
    /\ step
    /\ save_frame_cb = 0
    /\ stream = <<2, 10, 11, 128, 65, 0>>
    /\ Len(frames) = 3
    /\ Len(trace) = 3
    /\ out = <<10, 11, 10, 11, 0, 0, 0, 0>>

\* C15: a hook that fails does not abort decode: the call ends as the call
\* without a hook ends, with the same output.
C15_HookFailureTolerated ==
    (pc # "loop" /\ step /\ HasHook(save_frame_cb)) =>
        /\ pc = Hookless.pc
        /\ exc = Hookless.exc
        /\ out = Hookless.out

\* the trace entries of applied opcodes, in order
RECURSIVE AppliedOf(_)
AppliedOf(t) ==
    IF t = << >> THEN << >>
    ELSE IF IsApplied(Head(t)) THEN <<Head(t)>> \o AppliedOf(Tail(t))
    ELSE AppliedOf(Tail(t))

\* the accumulator right after the k-th entry of a
RECURSIVE OutAfter(_, _)
OutAfter(a, k) == IF k = 0 THEN << >> ELSE OutAfter(a, k - 1) \o a[k].payload

\* C20: with stepping on and a hook, the hook has been called once per
\* applied opcode, in order; call k got the count k and the accumulator as it
\* was right after the k-th applied opcode; the terminator and unassigned
\* bytes cause no call.
C20_HookOncePerOpcode ==
    (step /\ HasHook(save_frame_cb)) =>
        LET a == AppliedOf(trace)
        IN  /\ Len(frames) = Len(a)
            /\ frame = Len(a)
            /\ \A k \in 1..Len(a) : frames[k] = <<k, OutAfter(a, k)>>

\* an unassigned byte between applied opcodes, then the stream ends
C20_Witness ==
    /\ pc = "returned"
    /\ step
    /\ save_frame_cb = 0
    /\ stream = <<2, 10, 11, 32>> \o LongTail
    /\ Len(frames) >= 3
    /\ Len(trace) = Len(frames) + 1
    /\ frames[Len(frames)] = <<Len(frames), out>>

\* bytes of the palette file from the offset on
Available == IF Len(path) > pal_offset THEN Len(path) - pal_offset ELSE 0

\* C16: load_palette returns 256 entries whenever 768 bytes or more are
\* available from the offset, and fails with PaletteIncomplete, returning
\* nothing, whenever fewer are.
C16_PaletteLoad ==
    palette.pc \in {"returned", "raised"} =>
        /\ Available >= PaletteEntries * 3 =>
               /\ palette.pc = "returned"
               /\ Len(palette.bgrx) = PaletteEntries * 4
        /\ Available < PaletteEntries * 3 =>
               /\ palette.pc = "raised"
               /\ palette.exc = PaletteIncomplete
               /\ palette.bgrx = << >>

\* C17: the history never holds more than WIN bytes, and for every d from 1
\* to min(L, WIN), L being the number of bytes produced, hist[-d] is the
\* byte produced d positions before the end of the output.
C17_HistoryIsOutputTail ==
    /\ hist_len(hist) <= WIN
    /\ \A d \in 1..(IF Len(out) < WIN THEN Len(out) ELSE WIN) :
           hist_index(hist, 0 - d) = out[Len(out) - d + 1]

\* a long repeat of more than WIN bytes has pushed out the zero fill and the
\* bytes before it, and a literal was applied after it
C17_Witness ==
    /\ Len(out) > WIN
    /\ hist.fill = 0
    /\ Len(trace) >= 3
    /\ trace[2].note[1] = "R_LONG_LIT"
    /\ Len(trace[2].payload) > WIN
    /\ LastEntry.note[1] = "LIT"
    /\ hist_index(hist, 0 - WIN) = trace[2].payload[1]

\* the complete output so far as a history that has lost nothing
FullAccumulator == [fill |-> 0, data |-> out]

\* the selected handler run against the complete output
Reference == handler_fn(Selected, Cmd, stream, pos, FullAccumulator)

\* C18: a copy command whose distance does not exceed the bytes produced
\* appends, with the evicting window of WIN bytes, exactly what it appends
\* when its back-reference is resolved against the complete output; so the
\* two decoders produce the same output step by step. No distance exceeds
\* 1023 + 19, which is below WIN.
C18_WindowAsAccumulator ==
    [][ (Applies /\ Selected \in {4, 5, 6} /\ ~Reference.raised)
          => /\ pc' = "loop"
             /\ out' = out \o Reference.payload
             /\ pos' = Reference.nxt
             /\ Reference.note[Len(Reference.note)] <= 1023 + 19
             /\ 1023 + 19 < WIN ]_vars

\* more than WIN bytes produced, then the longest copy from the largest
\* distance
C18_Witness ==
    /\ Len(trace) >= 4
    /\ Len(trace[1].payload) > WIN
    /\ trace[4].note = <<"COPY", 19, 1042>>
    /\ trace[4].payload = [i \in 1..19 |-> 4]
    /\ Len(out) >= 4227
    /\ SubSeq(out, 4209, 4227) = trace[4].payload

\* what a copy command c with operand byte b1 does on history h
CopyOn(c, b1, h) == handler_fn(handler_index(c), c, <<c, b1>>, 0, h)

\* the distance in a copy's note (its last field)
NoteDist(note) == note[Len(note)]

RECURSIVE Bytewise(_, _, _)
Bytewise(h, d, n) ==
    IF n = 0 THEN << >>
    ELSE LET b == hist_index(h, 0 - d)
         IN  <<b>> \o Bytewise(hist_extend(h, <<b>>), d, n - 1)

Matching(c) == {k \in 1..6 : handler_cond(k, c)}

\* C21: for the byte at any command position at most one condition of the
\* dispatch table holds: exactly one for 0x01-0x1F and 0x40-0xFF, none for
\* 0x00 and 0x20-0x3F; so the handler found first is the only one that
\* matches, whatever the order of the table.
C21_DispatchIsPartition ==
    (pc = "loop" /\ InRange(stream, pos)) =>
        /\ Cardinality(Matching(Cmd)) <= 1
        /\ (Cmd \in (1..31) \cup (64..255) => Cardinality(Matching(Cmd)) = 1)
        /\ (Cmd \in {0} \cup (32..63) => Matching(Cmd) = {})
        /\ \A k \in Matching(Cmd) : Selected = k
        /\ (Matching(Cmd) = {} => Selected = 0)

\* 0x60, where the short-repeat range ends and the long-repeat range begins,
\* is at the command position after a literal
C21_Witness ==
    /\ pc = "loop"
    /\ pos = 3
    /\ InRange(stream, pos)
    /\ Cmd = 96
    /\ Matching(Cmd) = {3}
    /\ Selected = 3
    /\ Len(trace) = 1

\* what the selected handler returns in the current state
Handled == handler_fn(Selected, Cmd, stream, pos, hist)

\* C22: in every step of a call the accumulator before the step is a prefix
\* of the accumulator after it; a step that applies an opcode appends that
\* opcode's whole payload, every other step (terminator, budget stop,
\* unassigned byte, end of stream, handler error) leaves it as it is; bytes
\* leaving the history window do not leave the accumulator.
C22_OutputAppendOnly ==
    [][ /\ IsPrefix(out, out')
        /\ ((Applies /\ ~Handled.raised) => out' = out \o Handled.payload)
        /\ ((~Applies \/ Handled.raised) => out' = out) ]_vars

\* 880 bytes, then a long repeat that pushes them all out of the window:
\* they are still in the accumulator
C22_Witness ==
    /\ Len(trace) = 4
    /\ LastEntry.note[1] = "R_LONG_LIT"
    /\ Len(LastEntry.payload) > WIN
    /\ Len(out) = 880 + Len(LastEntry.payload)
    /\ SubSeq(out, 879, 880) = <<10, 11>>
    /\ hist.fill = 0
    /\ Len(hist.data) = WIN

\* C23: the trace has one entry per applied opcode and no other entry; the
\* entries are in application order, each with the offset of its command
\* byte, the stream bytes the opcode consumed and the payload it produced
\* (the payloads, in order, make up the output).
C23_TraceOnePerOpcode ==
    LET a == AppliedOf(trace)
    IN  /\ Len(trace) = Len(a)
        /\ \A i \in 1..Len(trace) : IsApplied(trace[i])
        /\ \A i \in 1..Len(a) :
               /\ a[i].raw = Slice(stream, a[i].pos, a[i].pos + Len(a[i].raw))
               /\ a[i].raw # << >>
               /\ i > 1 => a[i].pos >= a[i - 1].pos + Len(a[i - 1].raw)
        /\ OutAfter(a, Len(a)) = out

\* C24: decode ends on every stream and for all budgets: a pass through the
\* loop body is made only at a position inside the stream, and it either
\* ends the call or moves the position forward by at least 1 (recording one
\* trace entry), so the passes made never outnumber the bytes of the stream.
C24_Terminates ==
    /\ <>(pc # "loop")
    /\ [](pc = "loop" => Len(trace) <= pos)
    /\ [][ (pc = "loop" /\ Branch # "exit")
             => /\ pos < Len(stream)
                /\ Len(trace) + 1 <= Len(stream)
                /\ \/ pc' # "loop"
                   \/ pos' >= pos + 1 /\ Len(trace') = Len(trace) + 1 ]_vars

\* the call has ended after as many passes as the stream has bytes: two
\* one-byte commands, neither of them the terminator
C24_Witness ==
    /\ pc = "returned"
    /\ stream = <<128, 32>>
    /\ Len(trace) = 2
    /\ pos = 2
    /\ stop_pix = None
    /\ stop_src = None
    /\ \A i \in 1..2 : Len(trace[i].raw) = 1 /\ trace[i].note # <<"TERM">>

\* a 0x00 among the operand bytes of the command at pos
ZeroOperand ==
    \E i \in (pos + 1)..(Handled.nxt - 1) :
        InRange(stream, i) /\ At(stream, i) = 0

\* C25: an opcode that consumes a 0x00 as an operand (literal data, repeat
\* value, long-repeat count, long-copy offset) is applied like any other and
\* the loop goes on at the command byte after it; the call ends with a
\* terminator entry only when the 0x00 is at the command position.
C25_ZeroOperandIsData ==
    [][ /\ (Applies /\ ~Handled.raised /\ ZeroOperand)
            => /\ pc' = "loop"
               /\ pos' = Handled.nxt
               /\ out' = out \o Handled.payload
               /\ Len(trace') = Len(trace) + 1
               /\ trace'[Len(trace')].note = Handled.note
        /\ (Len(trace') = Len(trace) + 1 /\ trace'[Len(trace')].note = <<"TERM">>)
            => /\ InRange(stream, pos)
               /\ Cmd = 0
               /\ pc' = "returned" ]_vars

\* a long repeat whose count byte is 0x00 was applied and the command after
\* it as well
C25_Witness ==
    /\ Len(trace) >= 2
    /\ trace[1].raw = <<99, 0, 4>>
    /\ Len(trace[1].payload) = 804
    /\ trace[2].pos = 3
    /\ trace[2].note[1] = "R_LONG_LIT"
    /\ Len(out) >= 878

\* C26: when the position reaches the end of the stream exactly, after a
\* whole opcode and with no terminator read, decode returns what it has
\* accumulated: no exception, no terminator entry, output and trace as they
\* are.
C26_MissingTerminatorAccepted ==
    [][ (pc = "loop" /\ pos = Len(stream))
          => /\ pc' = "returned"
             /\ exc' = NoExc
             /\ out' = out
             /\ trace' = trace
             /\ pos' = pos
             /\ \A i \in 1..Len(trace') : trace'[i].note # <<"TERM">> ]_vars

\* 02 0A 0B 80 ends after the copy: the four bytes are returned
C26_Witness ==
    /\ pc = "returned"
    /\ exc = NoExc
    /\ stream = <<2, 10, 11, 128>>
    /\ pos = Len(stream)
    /\ stop_pix = None
    /\ stop_src = None
    /\ out = <<10, 11, 10, 11>>
    /\ Len(trace) = 2

====
